---------------------------- MODULE Spec2Model ----------------------------
(* Party server (src/server.js): a WebSocket relay that groups connections *)
(* into parties addressed by a short join code and fans messages out to    *)
(* the members of a party.                                                 *)
(*                                                                         *)
(* JavaScript strings are sequences of one-character strings, so that the  *)
(* conversions the handlers apply (slice, toUpperCase, trim, String) are   *)
(* computed.  JavaScript values are records tagged by their type in t.     *)
EXTENDS Integers, Sequences, FiniteSets

\* ----------------------------------------------------------------------
\* Bounds of the model
\* ----------------------------------------------------------------------
\* Connection handles the transport accepts in specification Spec.
NumConns == 3
\* Connection handles the transport accepts in specification SpecFull.
NumConnsFull == 9
\* Connections the transport closes in one run (SpecFull).
MaxDropsFull == 1

\* ----------------------------------------------------------------------
\* Program constants
\* ----------------------------------------------------------------------
MaxMembers == 8
MaxNameLen == 20
MaxTextLen == 120
CodeLen == 4
OPEN == 1

COLORS ==
    << "#ff4444", "#44aaff", "#44ff88", "#ffcc00",
       "#ff88cc", "#88ffff", "#ff8844", "#cc88ff" >>

\* ----------------------------------------------------------------------
\* JavaScript values
\* ----------------------------------------------------------------------
Undef == [t |-> "undefined"]
Null == [t |-> "null"]
NaN == [t |-> "NaN"]
Num(n) == [t |-> "number", v |-> n]
Str(s) == [t |-> "string", v |-> s]
Arr(a) == [t |-> "array", v |-> a]
Obj(f) == [t |-> "object", v |-> f]
Bool(b) == [t |-> "boolean", v |-> b]
EmptyObj == [t |-> "object", v |-> [k \in {} |-> Undef]]

\* o.k : a property the value does not have reads as undefined.
Get(o, k) ==
    IF o.t = "object" /\ k \in DOMAIN o.v THEN o.v[k] ELSE Undef

\* The truthiness that || and if() test.
Truthy(v) ==
    CASE v.t = "undefined" -> FALSE
      [] v.t = "null" -> FALSE
      [] v.t = "NaN" -> FALSE
      [] v.t = "number" -> v.v # 0
      [] v.t = "boolean" -> v.v
      [] v.t = "string" -> v.v # <<>>
      [] OTHER -> TRUE

\* a || b
OrElse(a, b) == IF Truthy(a) THEN a ELSE b

Min(a, b) == IF a < b THEN a ELSE b

\* v.slice(0, n) exists on strings and arrays only.
HasSlice(v) == v.t \in {"string", "array"}
Slice0(v, n) == [t |-> v.t, v |-> SubSeq(v.v, 1, Min(n, Len(v.v)))]

Digits == << "0", "1", "2", "3", "4", "5", "6", "7", "8", "9" >>
LowerCase ==
    << "a", "b", "c", "d", "e", "f", "g", "h", "i", "j", "k", "l", "m",
       "n", "o", "p", "q", "r", "s", "t", "u", "v", "w", "x", "y", "z" >>
UpperCase ==
    << "A", "B", "C", "D", "E", "F", "G", "H", "I", "J", "K", "L", "M",
       "N", "O", "P", "Q", "R", "S", "T", "U", "V", "W", "X", "Y", "Z" >>
WhiteSpace == {" ", "\t", "\n", "\r"}

\* String(n) for a natural number: its decimal digits.
RECURSIVE DecStr(_)
DecStr(n) ==
    IF n < 10 THEN << Digits[n + 1] >>
    ELSE DecStr(n \div 10) \o << Digits[(n % 10) + 1] >>

UpperChar(c) ==
    IF \E i \in 1..Len(LowerCase) : LowerCase[i] = c
    THEN UpperCase[CHOOSE i \in 1..Len(LowerCase) : LowerCase[i] = c]
    ELSE c

\* s.toUpperCase()
ToUpperCase(s) == [i \in 1..Len(s) |-> UpperChar(s[i])]

\* s.trim()
RECURSIVE TrimLeft(_)
TrimLeft(s) ==
    IF s # <<>> /\ Head(s) \in WhiteSpace THEN TrimLeft(Tail(s)) ELSE s
RECURSIVE TrimRight(_)
TrimRight(s) ==
    IF s # <<>> /\ s[Len(s)] \in WhiteSpace
    THEN TrimRight(SubSeq(s, 1, Len(s) - 1)) ELSE s
Trim(s) == TrimRight(TrimLeft(s))

\* The value of a string of decimal digits.
RECURSIVE DigitsValue(_)
DigitsValue(s) ==
    IF s = <<>> THEN 0
    ELSE 10 * DigitsValue(SubSeq(s, 1, Len(s) - 1))
         + ((CHOOSE i \in 1..10 : Digits[i] = s[Len(s)]) - 1)

IsDigits(s) == \A i \in 1..Len(s) : \E d \in 1..10 : Digits[d] = s[i]

\* String(v); the elements of an array are joined by commas, null and
\* undefined elements as the empty string.
RECURSIVE JSString(_)
RECURSIVE JoinComma(_)
JSString(v) ==
    CASE v.t = "string" -> v.v
      [] v.t = "number" /\ v.v >= 0 -> DecStr(v.v)
      [] v.t = "number" /\ v.v < 0 -> << "-" >> \o DecStr(0 - v.v)
      [] v.t = "boolean" /\ v.v -> << "t", "r", "u", "e" >>
      [] v.t = "boolean" /\ ~v.v -> << "f", "a", "l", "s", "e" >>
      [] v.t = "array" -> JoinComma(v.v)
      [] v.t = "undefined" ->
            << "u", "n", "d", "e", "f", "i", "n", "e", "d" >>
      [] v.t = "null" -> << "n", "u", "l", "l" >>
      [] v.t = "NaN" -> << "N", "a", "N" >>
      [] OTHER ->
            << "[", "o", "b", "j", "e", "c", "t", " ",
               "O", "b", "j", "e", "c", "t", "]" >>
JoinComma(a) ==
    IF a = <<>> THEN <<>>
    ELSE LET e == a[Len(a)]
             text == IF e.t \in {"null", "undefined"} THEN <<>>
                     ELSE JSString(e)
             init == SubSeq(a, 1, Len(a) - 1)
         IN  IF init = <<>> THEN text
             ELSE JoinComma(init) \o << "," >> \o text

\* The number a string converts to: white space around it is dropped, the
\* empty string is 0, an optionally signed string of decimal digits is its
\* value, and text that is no number is NaN.  (The payloads of the model have
\* no fractions, exponents, radix prefixes or Infinity.)
StrToNumber(s) ==
    LET u == Trim(s)
    IN  IF IsDigits(u) THEN Num(DigitsValue(u))
        ELSE IF Len(u) > 1 /\ u[1] = "-" /\ IsDigits(Tail(u))
        THEN Num(0 - DigitsValue(Tail(u)))
        ELSE IF Len(u) > 1 /\ u[1] = "+" /\ IsDigits(Tail(u))
        THEN Num(DigitsValue(Tail(u)))
        ELSE NaN

\* Unary plus: +v.
ToNumber(v) ==
    CASE v.t = "number" -> v
      [] v.t = "null" -> Num(0)
      [] v.t = "boolean" -> Num(IF v.v THEN 1 ELSE 0)
      [] v.t = "string" -> StrToNumber(v.v)
      [] v.t = "array" -> StrToNumber(JSString(v))
      [] OTHER -> NaN

\* ----------------------------------------------------------------------
\* JavaScript Map, kept as its entries in insertion order
\* ----------------------------------------------------------------------
MapHas(m, k) == \E i \in 1..Len(m) : m[i].k = k
MapGet(m, k) == m[CHOOSE i \in 1..Len(m) : m[i].k = k].v
\* set keeps the position of a key the map already has.
MapSet(m, k, v) ==
    IF MapHas(m, k)
    THEN [i \in 1..Len(m) |-> IF m[i].k = k THEN [k |-> k, v |-> v] ELSE m[i]]
    ELSE Append(m, [k |-> k, v |-> v])
MapDelete(m, k) ==
    LET keep(e) == e.k # k IN SelectSeq(m, keep)
MapSize(m) == Len(m)

\* A function with one more (or one replaced) argument, and with one less.
Put(f, k, v) == [x \in DOMAIN f \cup {k} |-> IF x = k THEN v ELSE f[x]]
Drop(f, k) == [x \in DOMAIN f \ {k} |-> f[x]]

\* ----------------------------------------------------------------------
\* State
\* ----------------------------------------------------------------------
VARIABLES
    readyState,  \* handle -> readyState of the socket (handles in accept order)
    parties,     \* code -> [code, members: Map id -> player object]
    clients,     \* handle -> player object
    players,     \* the player objects alive, by the handle that allocated them
    nextId,      \* the global member counter
    crashed,     \* an exception left a handler: the process is gone
    out,         \* the send() calls of the last handler, in order
    last,        \* the last event: [op, ws, raw, who]
    seen         \* handle -> the member ids it was told of: [intro, gone]

vars ==
    << readyState, parties, clients, players, nextId, crashed, out, last,
       seen >>

\* The readyState of a socket that is closing, and of one whose close event
\* was emitted.
CLOSING == OPEN + 1
CLOSED == OPEN + 2

Handles == DOMAIN readyState

\* An inbound payload: text JSON.parse accepts (json is what it yields) or not.
Text(json) == [parses |-> TRUE, json |-> json]
Garbage == [parses |-> FALSE]

JSONparse(raw) ==
    IF raw.parses THEN [threw |-> FALSE, value |-> raw.json]
    ELSE [threw |-> TRUE]

\* The characters of the message kinds.
T_create == Str(<< "c", "r", "e", "a", "t", "e" >>)
T_join == Str(<< "j", "o", "i", "n" >>)
T_state == Str(<< "s", "t", "a", "t", "e" >>)
T_chat == Str(<< "c", "h", "a", "t" >>)
T_event == Str(<< "e", "v", "e", "n", "t" >>)
S_idle == Str(<< "i", "d", "l", "e" >>)
S_empty == Str(<< >>)

\* send(ws, obj): the call, and whether the socket was open so that it went out.
Send(ws, obj) ==
    [to |-> ws, msg |-> obj, wire |-> readyState[ws] = OPEN]

\* excludeId is ignored: every member is sent the message.
BroadcastAll(heap, party, obj, excludeId) ==
    [i \in 1..Len(party.members) |-> Send(heap[party.members[i].v].ws, obj)]

\* The connections of a set of handles, in the order they were accepted.
RECURSIVE InOrder(_)
InOrder(hs) ==
    IF hs = {} THEN << >>
    ELSE LET h == CHOOSE x \in hs : \A y \in hs : x <= y
         IN  << h >> \o InOrder(hs \ {h})

\* The loop runs over every member the server has, not over the party's.
BroadcastEveryParty(heap, party, obj, excludeId) ==
    LET rcpt == InOrder({r \in DOMAIN heap : heap[r].id # excludeId})
    IN  [i \in 1..Len(rcpt) |-> Send(heap[rcpt[i]].ws, obj)]

\* The loop over the members ends after its first send.
BroadcastFirst(heap, party, obj, excludeId) ==
    LET keep(e) == e.k # excludeId
        rcpt == SelectSeq(party.members, keep)
    IN  [i \in 1..Min(1, Len(rcpt)) |-> Send(heap[rcpt[i].v].ws, obj)]

\* broadcast(party, obj, excludeId) over the player objects in heap.
Broadcast(heap, party, obj, excludeId) ==
    LET keep(e) == e.k # excludeId
        rcpt == SelectSeq(party.members, keep)
    IN  [i \in 1..Len(rcpt) |-> Send(heap[rcpt[i].v].ws, obj)]

\* The player objects still referenced from the directory or from a party.
Referenced(ps, cs) ==
    {cs[w] : w \in DOMAIN cs}
    \cup UNION {{ps[c].members[i].v : i \in 1..Len(ps[c].members)} :
                    c \in DOMAIN ps}
Collect(heap, ps, cs) ==
    [r \in DOMAIN heap \cap Referenced(ps, cs) |-> heap[r]]

\* What a connection was told so far: the ids it was introduced to, by the
\* players of its welcome or by joined, and the ids it was told have left.
NothingSeen == [intro |-> {}, gone |-> {}]
SeenBy(h, w) == IF w \in DOMAIN h THEN h[w] ELSE NothingSeen
Note(h, s) ==
    LET old == SeenBy(h, s.to)
    IN  CASE s.msg.type = "welcome" ->
               Put(h, s.to,
                   [old EXCEPT !.intro =
                       @ \cup {s.msg.players[i].id :
                                 i \in 1..Len(s.msg.players)}])
          [] s.msg.type = "joined" ->
               Put(h, s.to, [old EXCEPT !.intro = @ \cup {s.msg.id}])
          [] s.msg.type = "left" ->
               Put(h, s.to, [old EXCEPT !.gone = @ \cup {s.msg.id}])
          [] OTHER -> h
RECURSIVE Observed(_, _)
Observed(h, sends) ==
    IF sends = << >> THEN h
    ELSE Observed(Note(h, Head(sends)), Tail(sends))
\* Every handler leaves seen as its sends make it.
Observe == seen' = Observed(seen, out')

ErrAlready == [type |-> "error", msg |-> << "Already in a party." >>]
ErrNotFound(code) ==
    [type |-> "error", msg |-> << "Party \"", code, "\" not found." >>]
ErrFull == [type |-> "error", msg |-> << "Party is full (max 8)." >>]

Init ==
    /\ readyState = << >>
    /\ parties = [c \in {} |-> Null]
    /\ clients = [w \in {} |-> 0]
    /\ players = [w \in {} |-> Null]
    /\ nextId = 1
    /\ crashed = FALSE
    /\ out = << >>
    /\ last = [op |-> "init", ws |-> 0, raw |-> Garbage, who |-> Null]
    /\ seen = [w \in {} |-> Null]

\* info = clients.get(ws), a player object of the heap.
InfoOf(ws) == players[clients[ws]]

\* The event a handler is run for: its kind, its connection, its payload and
\* the member the connection resolved to when the handler started.
Event(op, ws, raw) ==
    [op |-> op, ws |-> ws, raw |-> raw,
     who |-> IF ws \in DOMAIN clients
             THEN [id |-> InfoOf(ws).id, partyCode |-> InfoOf(ws).partyCode]
             ELSE Null]

\* The open connections that have no member yet.
Pending == {w \in Handles : readyState[w] = OPEN /\ w \notin DOMAIN clients}

\* wss.on('connection'): the transport accepts its next connection.  It does
\* so once every earlier connection has a member or is gone: accepting changes
\* nothing the handlers read, so a run that accepts earlier is such a run with
\* its handles renamed and its accepts moved later.
Connect(limit) ==
    /\ ~crashed
    /\ Len(readyState) < limit
    /\ Pending = {}
    /\ readyState' = Append(readyState, OPEN)
    /\ out' = << >>
    /\ last' = [op |-> "connection", ws |-> Len(readyState) + 1,
                raw |-> Garbage, who |-> Null]
    /\ UNCHANGED << parties, clients, players, nextId, crashed >>
    /\ Observe

\* The socket of an open connection starts closing (the peer went away, or
\* ws.on('error') terminated it); its close event is still to come.
Disconnect(ws) ==
    /\ ~crashed
    /\ ws \in Handles
    /\ readyState[ws] = OPEN
    /\ readyState' = [readyState EXCEPT ![ws] = CLOSING]
    /\ out' = << >>
    /\ last' = Event("disconnect", ws, Garbage)
    /\ UNCHANGED << parties, clients, players, nextId, crashed >>
    /\ Observe

\* The handler took an id from the counter before it returned.
ReturnsCounting(ws, raw, sent, threw) ==
    /\ out' = sent
    /\ crashed' = threw
    /\ last' = Event("message", ws, raw)
    /\ nextId' = nextId + 1
    /\ UNCHANGED << readyState, parties, clients, players >>

\* A handler that returns (or throws) without touching the registry.
Returns(ws, raw, sent, threw) ==
    /\ out' = sent
    /\ crashed' = threw
    /\ last' = Event("message", ws, raw)
    /\ UNCHANGED << readyState, parties, clients, players, nextId >>

\* A message event is delivered for an open socket of a live process.
Delivered(ws, raw) ==
    ~crashed /\ ws \in Handles /\ readyState[ws] = OPEN

\* try { msg = JSON.parse(raw) } catch { return }
MsgUnparseable(ws, raw) ==
    /\ Delivered(ws, raw)
    /\ JSONparse(raw).threw
    /\ Returns(ws, raw, << >>, FALSE)
    /\ Observe

\* msg.type of null throws a TypeError that nothing catches.
MsgNull(ws, raw) ==
    /\ Delivered(ws, raw)
    /\ ~JSONparse(raw).threw
    /\ JSONparse(raw).value = Null
    /\ Returns(ws, raw, << >>, TRUE)
    /\ Observe

\* The parsed message, when msg.type can be read.
Parsed(raw) == ~JSONparse(raw).threw /\ JSONparse(raw).value # Null
MsgOf(raw) == JSONparse(raw).value
TypeOf(raw) == Get(MsgOf(raw), "type")

\* ----------------------------------------------------------------------
\* Generators
\* ----------------------------------------------------------------------
CodeAlphabet ==
    { "A", "B", "C", "D", "E", "F", "G", "H", "J", "K", "L", "M", "N", "P",
      "Q", "R", "S", "T", "U", "V", "W", "X", "Y", "Z",
      "2", "3", "4", "5", "6", "7", "8", "9" }

\* genCode(): any string of CodeLen characters of the alphabet; the model
\* follows the outcomes in sample.
genCode(sample) ==
    {c \in sample : /\ c.t = "string"
                    /\ Len(c.v) = CodeLen
                    /\ \A i \in 1..Len(c.v) : c.v[i] \in CodeAlphabet}

\* The first code generated is kept, in use or not.
FreshCodeNoRetry(sample, ps) == genCode(sample)

\* let code = genCode(); while (parties.has(code)) code = genCode();
\* the codes the loop can end with.
FreshCode(sample, ps) == {c \in genCode(sample) : c \notin DOMAIN ps}

\* genName(): an adjective followed by a noun; the outcomes in sample.
genName(sample) == sample

\* The counter is taken as it was before the increment.
ColorOfBefore(counter) == COLORS[((counter - 2) % Len(COLORS)) + 1]

\* COLORS[(nextId - 1) % COLORS.length], nextId read after the increment.
ColorOf(counter) == COLORS[((counter - 1) % Len(COLORS)) + 1]

\* Every member is given the id of the first.
NewPlayerFirstId(id, name, color, ws, code) ==
    [id |-> Str(DecStr(1)), name |-> name, color |-> color, ws |-> ws,
     partyCode |-> code, lastState |-> Null]

\* The player object of a new member.
NewPlayer(id, name, color, ws, code) ==
    [id |-> id, name |-> name, color |-> color, ws |-> ws,
     partyCode |-> code, lastState |-> Null]

\* if (party.members.size >= 8)
PartyIsFull(party) == MapSize(party.members) >= MaxMembers

\* The welcome of a join lists nobody.
ExistingNone(heap, party) == << >>

\* The players list without the stored states.
ExistingNoState(heap, party) ==
    [i \in 1..Len(party.members) |->
        LET m == heap[party.members[i].v]
        IN  [id |-> m.id, name |-> m.name, color |-> m.color, state |-> Null]]

\* The players list of a join's welcome: everyone already there.
Existing(heap, party) ==
    [i \in 1..Len(party.members) |->
        LET m == heap[party.members[i].v]
        IN  [id |-> m.id, name |-> m.name, color |-> m.color,
             state |-> m.lastState]]

\* A create or join that throws after nextId++ : the id is consumed.
ThrowsAfterId(ws, raw) ==
    /\ nextId' = nextId + 1
    /\ crashed' = TRUE
    /\ out' = << >>
    /\ last' = Event("message", ws, raw)
    /\ UNCHANGED << readyState, parties, clients, players >>

\* if (msg.type === 'create')
MsgCreate(ws, raw, gen) ==
    /\ Delivered(ws, raw)
    /\ Parsed(raw)
    /\ TypeOf(raw) = T_create
    /\ IF ws \in DOMAIN clients
       THEN Returns(ws, raw, << Send(ws, ErrAlready) >>, FALSE)
       ELSE \E g \in genName(gen.names) :
            LET id == Str(DecStr(nextId))
                nm == OrElse(Get(MsgOf(raw), "name"), g)
                color == ColorOf(nextId + 1)
            IN  IF ~HasSlice(nm)
                THEN ThrowsAfterId(ws, raw)
                ELSE \E code \in FreshCode(gen.codes, parties) :
                     LET name == Slice0(nm, MaxNameLen)
                         player == NewPlayer(id, name, color, ws, code)
                         party == [code |-> code,
                                   members |-> MapSet(<< >>, id, ws)]
                         ps == Put(parties, code, party)
                         cs == Put(clients, ws, ws)
                     IN  /\ parties' = ps
                         /\ clients' = cs
                         /\ players' = Collect(Put(players, ws, player), ps, cs)
                         /\ nextId' = nextId + 1
                         /\ out' = << Send(ws, [type |-> "welcome", id |-> id,
                                                code |-> code,
                                                players |-> << >>,
                                                color |-> color]) >>
                         /\ last' = Event("message", ws, raw)
                         /\ UNCHANGED << readyState, crashed >>
    /\ Observe

\* else if (msg.type === 'join')
MsgJoin(ws, raw, gen) ==
    /\ Delivered(ws, raw)
    /\ Parsed(raw)
    /\ TypeOf(raw) = T_join
    /\ IF ws \in DOMAIN clients
       THEN Returns(ws, raw, << Send(ws, ErrAlready) >>, FALSE)
       ELSE
       LET c0 == OrElse(Get(MsgOf(raw), "code"), S_empty)
       IN  IF c0.t # "string"
           THEN Returns(ws, raw, << >>, TRUE)
           ELSE
           LET code == Str(Trim(ToUpperCase(c0.v)))
           IN  IF code \notin DOMAIN parties
               THEN Returns(ws, raw, << Send(ws, ErrNotFound(code)) >>, FALSE)
               ELSE IF PartyIsFull(parties[code])
               THEN Returns(ws, raw, << Send(ws, ErrFull) >>, FALSE)
               ELSE \E g \in genName(gen.names) :
                    LET id == Str(DecStr(nextId))
                        nm == OrElse(Get(MsgOf(raw), "name"), g)
                        color == ColorOf(nextId + 1)
                    IN  IF ~HasSlice(nm)
                        THEN ThrowsAfterId(ws, raw)
                        ELSE
                        LET name == Slice0(nm, MaxNameLen)
                            player == NewPlayer(id, name, color, ws, code)
                            existing == Existing(players, parties[code])
                            party == [parties[code] EXCEPT
                                        !.members = MapSet(@, id, ws)]
                            ps == Put(parties, code, party)
                            cs == Put(clients, ws, ws)
                            heap == Put(players, ws, player)
                        IN  /\ parties' = ps
                            /\ clients' = cs
                            /\ players' = Collect(heap, ps, cs)
                            /\ nextId' = nextId + 1
                            /\ out' = << Send(ws, [type |-> "welcome",
                                                   id |-> id, code |-> code,
                                                   players |-> existing,
                                                   color |-> color]) >>
                                      \o Broadcast(heap, party,
                                                   [type |-> "joined", id |-> id,
                                                    name |-> name,
                                                    color |-> color], id)
                            /\ last' = Event("message", ws, raw)
                            /\ UNCHANGED << readyState, crashed >>
    /\ Observe

\* ----------------------------------------------------------------------
\* state, chat, event
\* ----------------------------------------------------------------------
\* if (!info) return; party = parties.get(info.partyCode); if (!party) return;
Routable(ws) ==
    /\ ws \in DOMAIN clients
    /\ InfoOf(ws).partyCode \in DOMAIN parties

\* The default is taken for NaN only, so that 0 stays 0.
NumOrNaNOnly(v, d) ==
    LET n == ToNumber(v) IN IF n.t = "number" THEN n.v ELSE d

\* +v || d
NumOr(v, d) ==
    LET n == ToNumber(v) IN IF Truthy(n) THEN n.v ELSE d

\* anim is taken as it comes, without the default.
NormalizeRawAnim(msg) ==
    [x |-> NumOr(Get(msg, "x"), 0),
     y |-> NumOr(Get(msg, "y"), 0),
     z |-> NumOr(Get(msg, "z"), 0),
     yaw |-> NumOr(Get(msg, "yaw"), 0),
     pitch |-> NumOr(Get(msg, "pitch"), 0),
     chap |-> NumOr(Get(msg, "chap"), 1),
     anim |-> Get(msg, "anim")]

\* The normalized state of a state message.
Normalize(msg) ==
    [x |-> NumOr(Get(msg, "x"), 0),
     y |-> NumOr(Get(msg, "y"), 0),
     z |-> NumOr(Get(msg, "z"), 0),
     yaw |-> NumOr(Get(msg, "yaw"), 0),
     pitch |-> NumOr(Get(msg, "pitch"), 0),
     chap |-> NumOr(Get(msg, "chap"), 1),
     anim |-> OrElse(Get(msg, "anim"), S_idle)]

\* { type:'state', id: info.id, ...state }
StateMsg(id, st) ==
    [type |-> "state", id |-> id, x |-> st.x, y |-> st.y, z |-> st.z,
     yaw |-> st.yaw, pitch |-> st.pitch, chap |-> st.chap, anim |-> st.anim]

\* The state is stored in every member of the party.
MsgStateShared(ws, raw) ==
    /\ Delivered(ws, raw)
    /\ Parsed(raw)
    /\ TypeOf(raw) = T_state
    /\ IF ~Routable(ws)
       THEN Returns(ws, raw, << >>, FALSE)
       ELSE LET info == InfoOf(ws)
                state == Normalize(MsgOf(raw))
                party == parties[info.partyCode]
                heap == [r \in DOMAIN players |->
                           IF players[r].partyCode = info.partyCode
                           THEN [players[r] EXCEPT !.lastState = state]
                           ELSE players[r]]
            IN  /\ players' = heap
                /\ out' = Broadcast(heap, party,
                                    StateMsg(info.id, state), info.id)
                /\ last' = Event("message", ws, raw)
                /\ UNCHANGED << readyState, parties, clients, nextId, crashed >>
    /\ Observe

\* else if (msg.type === 'state')
MsgState(ws, raw) ==
    /\ Delivered(ws, raw)
    /\ Parsed(raw)
    /\ TypeOf(raw) = T_state
    /\ IF ~Routable(ws)
       THEN Returns(ws, raw, << >>, FALSE)
       ELSE LET info == InfoOf(ws)
                state == Normalize(MsgOf(raw))
                heap == [players EXCEPT ![clients[ws]].lastState = state]
            IN  /\ players' = heap
                /\ out' = Broadcast(heap, parties[info.partyCode],
                                    StateMsg(info.id, state), info.id)
                /\ last' = Event("message", ws, raw)
                /\ UNCHANGED << readyState, parties, clients, nextId, crashed >>
    /\ Observe

\* String(msg.text || '').slice(0, 120)
ChatText(msg) ==
    Slice0(Str(JSString(OrElse(Get(msg, "text"), S_empty))), MaxTextLen)

\* The chat goes to the rest of the party only.
ChatSendsToOthers(ws, party, obj) ==
    Broadcast(players, party, obj, InfoOf(ws).id)

\* broadcast(party, chat); send(ws, chat)
ChatSends(ws, party, obj) ==
    Broadcast(players, party, obj, Null) \o << Send(ws, obj) >>

\* else if (msg.type === 'chat')
MsgChat(ws, raw) ==
    /\ Delivered(ws, raw)
    /\ Parsed(raw)
    /\ TypeOf(raw) = T_chat
    /\ IF ~Routable(ws)
       THEN Returns(ws, raw, << >>, FALSE)
       ELSE LET info == InfoOf(ws)
                obj == [type |-> "chat", id |-> info.id, name |-> info.name,
                        text |-> ChatText(MsgOf(raw))]
            IN  Returns(ws, raw,
                        ChatSends(ws, parties[info.partyCode], obj), FALSE)
    /\ Observe

\* else if (msg.type === 'event')
MsgEvent(ws, raw) ==
    /\ Delivered(ws, raw)
    /\ Parsed(raw)
    /\ TypeOf(raw) = T_event
    /\ IF ~Routable(ws)
       THEN Returns(ws, raw, << >>, FALSE)
       ELSE LET info == InfoOf(ws)
                obj == [type |-> "event", id |-> info.id,
                        ev |-> Get(MsgOf(raw), "ev"),
                        data |-> OrElse(Get(MsgOf(raw), "data"), EmptyObj)]
            IN  Returns(ws, raw,
                        Broadcast(players, parties[info.partyCode], obj, info.id),
                        FALSE)
    /\ Observe

\* No branch of the if/else-if chain takes the message.
MsgUnknown(ws, raw) ==
    /\ Delivered(ws, raw)
    /\ Parsed(raw)
    /\ TypeOf(raw) \notin {T_create, T_join, T_state, T_chat, T_event}
    /\ Returns(ws, raw, << >>, FALSE)
    /\ Observe

\* ws.on('message')
OnMessage(ws, raw, gen) ==
    \/ MsgUnparseable(ws, raw)
    \/ MsgNull(ws, raw)
    \/ MsgCreate(ws, raw, gen)
    \/ MsgJoin(ws, raw, gen)
    \/ MsgState(ws, raw)
    \/ MsgChat(ws, raw)
    \/ MsgEvent(ws, raw)
    \/ MsgUnknown(ws, raw)

\* ----------------------------------------------------------------------
\* close
\* ----------------------------------------------------------------------
\* The member is left in the party.
DiminishedNot(party, info) == party

\* party.members.delete(info.id)
Diminished(party, info) ==
    [party EXCEPT !.members = MapDelete(@, info.id)]

\* The empty party is left in the registry.
CleanUpKeeps(ps, party) == Put(ps, party.code, party)

\* if (party.members.size === 0) parties.delete(info.partyCode)
CleanUp(ps, party) ==
    IF MapSize(party.members) = 0
    THEN Drop(ps, party.code)
    ELSE Put(ps, party.code, party)

\* The directory keeps the entry of the closed connection.
ForgetNothing(cs, ws) == cs

\* clients.delete(ws)
Forget(cs, ws) == Drop(cs, ws)

\* ws.on('close'): the close event of a socket; the hook may be called again
\* for a handle that is already closed.
OnClose(ws) ==
    /\ ~crashed
    /\ ws \in Handles
    /\ readyState[ws] \in {CLOSING, CLOSED}
    /\ readyState' = [readyState EXCEPT ![ws] = CLOSED]
    /\ last' = Event("close", ws, Garbage)
    /\ UNCHANGED << nextId, crashed >>
    /\ IF ws \notin DOMAIN clients
       THEN /\ out' = << >>
            /\ UNCHANGED << parties, clients, players >>
       ELSE LET info == InfoOf(ws)
                cs == Forget(clients, ws)
            IN  IF info.partyCode \in DOMAIN parties
                THEN LET party == Diminished(parties[info.partyCode], info)
                         ps == CleanUp(parties, party)
                     IN  /\ out' = Broadcast(players, party,
                                             [type |-> "left", id |-> info.id],
                                             Null)
                         /\ parties' = ps
                         /\ clients' = cs
                         /\ players' = Collect(players, ps, cs)
                ELSE /\ out' = << >>
                     /\ parties' = parties
                     /\ clients' = cs
                     /\ players' = Collect(players, parties, cs)
    /\ Observe

\* ----------------------------------------------------------------------
\* The payloads, generator outcomes and runs the model follows
\* ----------------------------------------------------------------------
CodeA == Str(<< "A", "B", "C", "D" >>)
CodeB == Str(<< "W", "X", "Y", "Z" >>)
\* " abcd" : the code of party A as a client may type it.
CodeATyped == Str(<< " ", "a", "b", "c", "d" >>)
NameGen ==
    Str(<< "S", "h", "a", "d", "o", "w", "B", "u", "n", "n", "y" >>)
\* A name of MaxNameLen + 1 characters.
NameLong == Str([i \in 1..(MaxNameLen + 1) |-> IF i > MaxNameLen THEN "!" ELSE "n"])
TextHi == Str(<< "h", "i" >>)

R_create == Text(Obj([type |-> T_create]))
R_createBadName == Text(Obj([type |-> T_create, name |-> Num(5)]))
R_joinA == Text(Obj([type |-> T_join, code |-> CodeATyped, name |-> NameLong]))
R_joinB == Text(Obj([type |-> T_join, code |-> CodeB]))
R_joinBadCode == Text(Obj([type |-> T_join, code |-> Num(5)]))
R_state == Text(Obj([type |-> T_state, x |-> Num(5)]))
R_chat == Text(Obj([type |-> T_chat, text |-> TextHi]))
R_event == Text(Obj([type |-> T_event, ev |-> Str(<< "g", "r", "a", "b" >>)]))
R_unknown == Text(Obj([type |-> Str(<< "p", "i", "n", "g" >>)]))
R_number == Text(Num(7))
R_null == Text(Null)

Raws ==
    { Garbage, R_null, R_number, R_unknown, R_create, R_createBadName,
      R_joinA, R_joinB, R_joinBadCode, R_state, R_chat, R_event }

Gen == [codes |-> {CodeA, CodeB}, names |-> {NameGen}]

Conns == 1..NumConns

Next ==
    \/ Connect(NumConns)
    \/ \E ws \in Conns : Disconnect(ws)
    \/ \E ws \in Conns : OnClose(ws)
    \/ \E ws \in Conns, raw \in Raws : OnMessage(ws, raw, Gen)

Spec == Init /\ [][Next]_vars

\* One party that fills up: create and join only, and few connections closed.
R_joinBadName ==
    Text(Obj([type |-> T_join, code |-> CodeATyped, name |-> Num(5)]))
RawsFull == { R_create, R_joinA, R_joinBadName }
GenFull == [codes |-> {CodeA}, names |-> {NameGen}]
ConnsFull == 1..NumConnsFull

Dropped == {w \in Handles : readyState[w] # OPEN}

NextFull ==
    \/ Connect(NumConnsFull)
    \/ \E ws \in ConnsFull :
          Cardinality(Dropped) < MaxDropsFull /\ Disconnect(ws)
    \/ \E ws \in ConnsFull : OnClose(ws)
    \/ \E ws \in ConnsFull, raw \in RawsFull : MsgCreate(ws, raw, GenFull)
    \/ \E ws \in ConnsFull, raw \in RawsFull : MsgJoin(ws, raw, GenFull)

SpecFull == Init /\ [][NextFull]_vars

\* One party that fills up, with every kind of message the handler answers
\* or ignores; the members of the party send no state message.
RawsReplies ==
    { Garbage, R_unknown, R_create, R_joinA, R_joinB, R_joinBadCode, R_state,
      R_chat, R_event }

NextReplies ==
    \/ Connect(NumConnsFull)
    \/ \E ws \in ConnsFull :
          Cardinality(Dropped) < MaxDropsFull /\ Disconnect(ws)
    \/ \E ws \in ConnsFull : OnClose(ws)
    \/ \E ws \in ConnsFull, raw \in RawsReplies : MsgUnparseable(ws, raw)
    \/ \E ws \in ConnsFull, raw \in RawsReplies : MsgCreate(ws, raw, GenFull)
    \/ \E ws \in ConnsFull, raw \in RawsReplies : MsgJoin(ws, raw, GenFull)
    \/ \E ws \in ConnsFull, raw \in RawsReplies :
          ws \notin DOMAIN clients /\ MsgState(ws, raw)
    \/ \E ws \in ConnsFull, raw \in RawsReplies : MsgChat(ws, raw)
    \/ \E ws \in ConnsFull, raw \in RawsReplies : MsgEvent(ws, raw)
    \/ \E ws \in ConnsFull, raw \in RawsReplies : MsgUnknown(ws, raw)

SpecReplies == Init /\ [][NextReplies]_vars

\* State messages that set one field, over the kinds of value JSON has.
S_abc == Str(<< "a", "b", "c" >>)
S_seven == Str(<< "7" >>)
S_run == Str(<< "r", "u", "n" >>)
StateRaw(k, v) ==
    Text(Obj([f \in {"type", k} |-> IF f = "type" THEN T_state ELSE v]))
R_stateEmpty == Text(Obj([type |-> T_state]))
NumberVals ==
    { Null, Num(0), Num(5), Num(0 - 1), S_abc, S_seven, S_empty,
      Bool(TRUE), Bool(FALSE), Arr(<< Num(5) >>), EmptyObj }
FewVals == { Num(5), S_abc, Bool(TRUE) }
AnimVals == { S_run, S_empty, Num(5), Null, Bool(FALSE), EmptyObj }
NumKeys == { "x", "y", "z", "yaw", "pitch" }
RawsState ==
    { R_create, R_joinA, R_stateEmpty }
    \cup { StateRaw(k, v) : k \in { "x", "chap" }, v \in NumberVals }
    \cup { StateRaw(k, v) : k \in NumKeys \ { "x" }, v \in FewVals }
    \cup { StateRaw("anim", v) : v \in AnimVals }

\* Connection handles the transport accepts in specification SpecState.
NumConnsState == 2
ConnsState == 1..NumConnsState

\* The runs of SpecState: a party is created and joined, and its members send
\* state messages.
NextState ==
    \/ Connect(NumConnsState)
    \/ \E ws \in ConnsState, raw \in RawsState : MsgCreate(ws, raw, GenFull)
    \/ \E ws \in ConnsState, raw \in RawsState : MsgJoin(ws, raw, GenFull)
    \/ \E ws \in ConnsState, raw \in RawsState : MsgState(ws, raw)

SpecState == Init /\ [][NextState]_vars

\* ----------------------------------------------------------------------
\* Vocabulary of the properties
\* ----------------------------------------------------------------------
\* The step is the message handler run for payload raw of connection ws.
Step(ws, raw) ==
    last'.op = "message" /\ last'.ws = ws /\ last'.raw = raw

\* A join whose code is a string or absent, and the code it names.
NamesCode(raw) ==
    /\ Parsed(raw)
    /\ TypeOf(raw) = T_join
    /\ OrElse(Get(MsgOf(raw), "code"), S_empty).t = "string"
JoinTarget(raw) ==
    Str(Trim(ToUpperCase(OrElse(Get(MsgOf(raw), "code"), S_empty).v)))

Size(c) == MapSize(parties[c].members)
\* The connections of the members of a party.
MemberHandles(ps, heap, c) ==
    {heap[ps[c].members[i].v].ws : i \in 1..Len(ps[c].members)}
\* The connections the sends of a handler are addressed to.
Recipients(sends) == {sends[i].to : i \in 1..Len(sends)}
Reply(ws, obj) == [to |-> ws, msg |-> obj, wire |-> TRUE]

\* ----------------------------------------------------------------------
\* C1
\* ----------------------------------------------------------------------
C1_Bounds == \A c \in DOMAIN parties : Size(c) \in 1..MaxMembers

\* C1: every party has between 1 and 8 members in every reachable state; a
\* join by a connection without a member to a party of 8 is answered 'Party is
\* full' and adds no member; to a party of 7 it succeeds and the party has 8.
C1_Capacity ==
    /\ []C1_Bounds
    /\ [][\A ws \in ConnsFull, raw \in RawsFull :
            (/\ Step(ws, raw)
             /\ NamesCode(raw)
             /\ ws \notin DOMAIN clients
             /\ JoinTarget(raw) \in DOMAIN parties)
            => LET c == JoinTarget(raw)
               IN  /\ Size(c) = MaxMembers
                        => /\ out' = << Reply(ws, ErrFull) >>
                           /\ parties' = parties
                           /\ clients' = clients
                   /\ Size(c) = MaxMembers - 1
                        => /\ c \in DOMAIN parties'
                           /\ MapSize(parties'[c].members) = MaxMembers
                           /\ ws \in DOMAIN clients'
                           /\ ~crashed']_vars

\* The part of C1 that the code keeps: the bounds, the refusal at 8, and the
\* success at 7 of a join whose name is absent or a string.
C1_CapacityTypedName ==
    /\ []C1_Bounds
    /\ [][\A ws \in ConnsFull, raw \in RawsFull :
            (/\ Step(ws, raw)
             /\ NamesCode(raw)
             /\ ws \notin DOMAIN clients
             /\ JoinTarget(raw) \in DOMAIN parties)
            => LET c == JoinTarget(raw)
               IN  /\ Size(c) = MaxMembers
                        => /\ out' = << Reply(ws, ErrFull) >>
                           /\ parties' = parties
                           /\ clients' = clients
                   /\ (/\ Size(c) = MaxMembers - 1
                       /\ Get(MsgOf(raw), "name").t \in {"undefined", "string"})
                        => /\ c \in DOMAIN parties'
                           /\ MapSize(parties'[c].members) = MaxMembers
                           /\ ws \in DOMAIN clients'
                           /\ ~crashed']_vars

C1_FullRefused ==
    /\ last.op = "message"
    /\ last.raw = R_joinA
    /\ out = << Reply(last.ws, ErrFull) >>
    /\ Size(CodeA) = MaxMembers

\* ----------------------------------------------------------------------
\* C2
\* ----------------------------------------------------------------------
\* A create of a connection without a member that went through.
Created(ws, raw) ==
    /\ Step(ws, raw)
    /\ Parsed(raw)
    /\ TypeOf(raw) = T_create
    /\ ws \notin DOMAIN clients
    /\ ws \in DOMAIN clients'

\* C2: a successful create gives the new party a code no live party has: the
\* registry gains exactly that code, every party that was live is left as it
\* was, the new party holds the creator alone; and no two live parties share
\* a code.
C2_FreshCode ==
    /\ [](\A c1, c2 \in DOMAIN parties :
            /\ parties[c1].code = c1
            /\ c1 # c2 => parties[c1].code # parties[c2].code)
    /\ [][\A ws \in Conns, raw \in Raws :
            Created(ws, raw)
            => \E code \in DOMAIN parties' \ DOMAIN parties :
                 /\ DOMAIN parties' = DOMAIN parties \cup {code}
                 /\ \A c \in DOMAIN parties : parties'[c] = parties[c]
                 /\ MemberHandles(parties', players', code) = {ws}
                 /\ players'[clients'[ws]].partyCode = code
                 /\ Len(out') = 1
                 /\ out'[1].to = ws
                 /\ out'[1].msg.type = "welcome"
                 /\ out'[1].msg.code = code]_vars

\* A create went through while another party was live.
C2_SecondParty ==
    /\ last.op = "message"
    /\ last.raw = R_create
    /\ last.who = Null
    /\ last.ws \in DOMAIN clients
    /\ Cardinality(DOMAIN parties) = 2
    /\ out[1].msg.type = "welcome"

\* ----------------------------------------------------------------------
\* C3
\* ----------------------------------------------------------------------
\* The step is the close handler run for connection ws.
Closes(ws) == last'.op = "close" /\ last'.ws = ws

\* C3: no party of the registry is ever empty; the close handler that removes
\* the last member of a party removes the party in the same step; a join to a
\* code without registry entry is answered 'not found' and changes nothing;
\* and a code only enters the registry by a create that went through.
C3_NoEmptyParty ==
    /\ [](\A c \in DOMAIN parties : Size(c) >= 1)
    /\ [][\A ws \in Conns :
            (/\ Closes(ws)
             /\ ws \in DOMAIN clients
             /\ InfoOf(ws).partyCode \in DOMAIN parties
             /\ MemberHandles(parties, players, InfoOf(ws).partyCode) = {ws})
            => /\ InfoOf(ws).partyCode \notin DOMAIN parties'
               /\ ws \notin DOMAIN clients']_vars
    /\ [][\A ws \in Conns, raw \in Raws :
            (/\ Step(ws, raw)
             /\ NamesCode(raw)
             /\ ws \notin DOMAIN clients
             /\ JoinTarget(raw) \notin DOMAIN parties)
            => /\ out' = << Reply(ws, ErrNotFound(JoinTarget(raw))) >>
               /\ UNCHANGED << parties, clients, players, nextId >>]_vars
    /\ [][\A c \in DOMAIN parties' \ DOMAIN parties :
            \E ws \in Conns, raw \in Raws :
               Created(ws, raw) /\ players'[clients'[ws]].partyCode = c]_vars

\* The close handler has removed the last member of a party, and the party.
C3_Dissolved ==
    /\ last.op = "close"
    /\ last.who # Null
    /\ last.who.partyCode \notin DOMAIN parties
    /\ nextId > 2

\* ----------------------------------------------------------------------
\* C4
\* ----------------------------------------------------------------------
RECURSIVE SumSizes(_)
SumSizes(cs) ==
    IF cs = {} THEN 0
    ELSE LET c == CHOOSE x \in cs : TRUE
         IN  Size(c) + SumSizes(cs \ {c})

\* The places a player object is a member at: party and position.
Seats(r) ==
    {<< c, i >> \in (DOMAIN parties) \X (1..MaxMembers) :
        i <= Size(c) /\ parties[c].members[i].v = r}

\* C4: every connection of the directory maps to a member whose partyCode
\* names a live party that holds that member under its id; every member of a
\* party is the directory entry of its own connection; a member is in exactly
\* one party; the directory has as many entries as the parties have members.
C4_Consistent ==
    /\ \A ws \in DOMAIN clients :
          /\ clients[ws] \in DOMAIN players
          /\ LET m == players[clients[ws]]
             IN  /\ m.ws = ws
                 /\ m.partyCode \in DOMAIN parties
                 /\ MapHas(parties[m.partyCode].members, m.id)
                 /\ MapGet(parties[m.partyCode].members, m.id) = clients[ws]
    /\ \A c \in DOMAIN parties : \A i \in 1..Size(c) :
          LET r == parties[c].members[i].v
          IN  /\ r \in DOMAIN players
              /\ players[r].ws \in DOMAIN clients
              /\ clients[players[r].ws] = r
              /\ players[r].id = parties[c].members[i].k
              /\ players[r].partyCode = c
    /\ \A r \in DOMAIN players : Cardinality(Seats(r)) = 1
    /\ Cardinality(DOMAIN clients) = SumSizes(DOMAIN parties)

\* Two parties are live after the close handler removed a member of one.
C4_AfterClose ==
    /\ last.op = "close"
    /\ last.who # Null
    /\ last.who.partyCode \in DOMAIN parties
    /\ Cardinality(DOMAIN parties) = 2
    /\ Cardinality(DOMAIN clients) = 2

\* ----------------------------------------------------------------------
\* C5
\* ----------------------------------------------------------------------
\* C5: a state or event message of a member is sent to the connections of the
\* other members of its party, to each once, and to nobody else; every send
\* is the state/event message with the id of the sender.
C5_OthersOnly ==
    [][\A ws \in Conns, raw \in Raws :
         (/\ Step(ws, raw)
          /\ Parsed(raw)
          /\ TypeOf(raw) \in {T_state, T_event}
          /\ ws \in DOMAIN clients)
         => LET info == InfoOf(ws)
                others == MemberHandles(parties, players, info.partyCode) \ {ws}
            IN  /\ Recipients(out') = others
                /\ Len(out') = Cardinality(others)
                /\ ws \notin Recipients(out')
                /\ \A i \in 1..Len(out') :
                      /\ out'[i].msg.id = info.id
                      /\ out'[i].msg.type =
                            IF TypeOf(raw) = T_state THEN "state" ELSE "event"]_vars

\* A member of a party of three sent a state message; the two others are the
\* recipients.
C5_StateToTwo ==
    /\ last.op = "message"
    /\ last.raw = R_state
    /\ last.who # Null
    /\ Cardinality(Recipients(out)) = 2
    /\ last.ws \notin Recipients(out)
    /\ out[1].msg.type = "state"

\* ----------------------------------------------------------------------
\* C6
\* ----------------------------------------------------------------------
\* C6: a chat message of a member is sent to the connections of all members
\* of its party, the sender among them, and to nobody else; every send is
\* chat{id, name, text} with the id and name of the sender and the text cut
\* to 120 characters.
C6_WholeParty ==
    [][\A ws \in Conns, raw \in Raws :
         (/\ Step(ws, raw)
          /\ Parsed(raw)
          /\ TypeOf(raw) = T_chat
          /\ ws \in DOMAIN clients)
         => LET info == InfoOf(ws)
            IN  /\ Recipients(out')
                      = MemberHandles(parties, players, info.partyCode)
                /\ ws \in Recipients(out')
                /\ \A i \in 1..Len(out') :
                      /\ out'[i].msg.type = "chat"
                      /\ out'[i].msg.id = info.id
                      /\ out'[i].msg.name = info.name
                      /\ out'[i].msg.text.t = "string"
                      /\ Len(out'[i].msg.text.v) <= MaxTextLen]_vars

\* A member of a party of three sent a chat; all three are recipients.
C6_ChatToThree ==
    /\ last.op = "message"
    /\ last.raw = R_chat
    /\ last.who # Null
    /\ Cardinality(Recipients(out)) = 3
    /\ last.ws \in Recipients(out)
    /\ out[1].msg.text = TextHi

\* ----------------------------------------------------------------------
\* C7
\* ----------------------------------------------------------------------
\* C7: the close handler run again for a connection it already ran for
\* changes neither registry nor directory, sends nothing and does not throw;
\* the first run for a member sends left{id} of that member once to each
\* member that remains, so both runs together produce that one broadcast.
C7_CloseIdempotent ==
    /\ [][\A ws \in Conns :
            (Closes(ws) /\ readyState[ws] = CLOSED)
            => /\ out' = << >>
               /\ ~crashed'
               /\ UNCHANGED << parties, clients, players, nextId,
                               readyState >>]_vars
    /\ [][\A ws \in Conns :
            (Closes(ws) /\ readyState[ws] = CLOSING /\ ws \in DOMAIN clients)
            => LET info == InfoOf(ws)
                   rest == MemberHandles(parties, players, info.partyCode)
                           \ {ws}
               IN  /\ Recipients(out') = rest
                   /\ Len(out') = Cardinality(rest)
                   /\ \A i \in 1..Len(out') :
                         out'[i].msg = [type |-> "left", id |-> info.id]
                   /\ ws \notin DOMAIN clients']_vars

\* Two connections had a member each; the close handler ran for one of them,
\* and now ran for it again while the other is still a member.
C7_ClosedTwice ==
    /\ last.op = "close"
    /\ last.who = Null
    /\ Len(readyState) = 2
    /\ nextId = 3
    /\ ~crashed
    /\ Cardinality(DOMAIN clients) = 1
    /\ last.ws \notin DOMAIN clients

\* ----------------------------------------------------------------------
\* C8
\* ----------------------------------------------------------------------
\* A join of a connection without a member that went through.
Joined(ws, raw) ==
    /\ Step(ws, raw)
    /\ NamesCode(raw)
    /\ ws \notin DOMAIN clients
    /\ ws \in DOMAIN clients'

\* The player objects of the members of party c.
MembersOf(ps, heap, c) ==
    {heap[ps[c].members[i].v] : i \in 1..Len(ps[c].members)}

\* C8: on a join that went through the joiner is sent one welcome, first,
\* with its id, the code and its color, whose players are the members the
\* party had before, each once with id, name, color and stored state, the
\* joiner not among them; the members the party had before are each sent one
\* joined{id, name, color} of the joiner, the joiner none.  The stored state
\* of a member is none from its creation on and changes only to the
\* normalized state of a state message of that member.
C8_Welcome ==
    /\ [][\A ws \in Conns, raw \in Raws :
            Joined(ws, raw)
            => LET c == JoinTarget(raw)
                   me == players'[clients'[ws]]
                   before == MembersOf(parties, players, c)
                   w == out'[1]
                   listed == {w.msg.players[i] : i \in 1..Len(w.msg.players)}
                   rest == SubSeq(out', 2, Len(out'))
               IN  /\ w.to = ws
                   /\ w.msg.type = "welcome"
                   /\ w.msg.id = me.id
                   /\ w.msg.code = c
                   /\ w.msg.color = me.color
                   /\ listed = {[id |-> m.id, name |-> m.name,
                                 color |-> m.color, state |-> m.lastState] :
                                   m \in before}
                   /\ Len(w.msg.players) = Cardinality(before)
                   /\ \A p \in listed : p.id # me.id
                   /\ Recipients(rest) = MemberHandles(parties, players, c)
                   /\ Len(rest) = Cardinality(Recipients(rest))
                   /\ ws \notin Recipients(rest)
                   /\ \A i \in 1..Len(rest) :
                         rest[i].msg = [type |-> "joined", id |-> me.id,
                                        name |-> me.name, color |-> me.color]]_vars
    /\ [][\A r \in DOMAIN players' :
            IF r \notin DOMAIN players
            THEN players'[r].lastState = Null
            ELSE players'[r].lastState # players[r].lastState
                 => \E raw \in Raws :
                      /\ Step(players[r].ws, raw)
                      /\ TypeOf(raw) = T_state
                      /\ players'[r].lastState = Normalize(MsgOf(raw))]_vars
    /\ [][\A ws \in Conns, raw \in Raws :
            (/\ Step(ws, raw)
             /\ Parsed(raw)
             /\ TypeOf(raw) = T_state
             /\ ws \in DOMAIN clients)
            => players'[clients[ws]].lastState = Normalize(MsgOf(raw))]_vars

\* A connection joined a party of two, one with a stored state and one
\* without; it got the welcome and the two got joined.
C8_WelcomeTwo ==
    /\ last.op = "message"
    /\ last.raw = R_joinA
    /\ last.who = Null
    /\ Len(out) = 3
    /\ out[1].msg.type = "welcome"
    /\ Len(out[1].msg.players) = 2
    /\ \E i, j \in 1..2 :
          /\ out[1].msg.players[i].state = Normalize(MsgOf(R_state))
          /\ out[1].msg.players[j].state = Null

\* ----------------------------------------------------------------------
\* C9
\* ----------------------------------------------------------------------
AllRaws == Raws \cup RawsReplies \cup RawsFull
AllConns == Conns \cup ConnsFull

IsJoin(raw) == Parsed(raw) /\ TypeOf(raw) = T_join
IsCreate(raw) == Parsed(raw) /\ TypeOf(raw) = T_create
\* The live party a join names, if there is one.
LiveTarget(raw) ==
    IF NamesCode(raw) THEN {JoinTarget(raw)} \cap DOMAIN parties ELSE {}

\* The four situations an error message is due in.
CreateInParty(ws, raw) == IsCreate(raw) /\ ws \in DOMAIN clients
JoinInParty(ws, raw) == IsJoin(raw) /\ ws \in DOMAIN clients
JoinNoParty(ws, raw) ==
    IsJoin(raw) /\ ws \notin DOMAIN clients /\ LiveTarget(raw) = {}
JoinFullParty(ws, raw) ==
    /\ IsJoin(raw)
    /\ ws \notin DOMAIN clients
    /\ \E c \in LiveTarget(raw) : Size(c) >= MaxMembers
ErrorDue(ws, raw) ==
    \/ CreateInParty(ws, raw)
    \/ JoinInParty(ws, raw)
    \/ JoinNoParty(ws, raw)
    \/ JoinFullParty(ws, raw)

\* The invalid situations nothing is sent in.
Silent(ws, raw) ==
    \/ JSONparse(raw).threw
    \/ /\ Parsed(raw)
       /\ TypeOf(raw) \in {T_state, T_chat, T_event}
       /\ ws \notin DOMAIN clients
    \/ /\ Parsed(raw)
       /\ TypeOf(raw) \notin {T_create, T_join, T_state, T_chat, T_event}

\* What the handler run for raw of ws sends, as far as errors go.
ErrorsOf(ws, raw) ==
    /\ IF ErrorDue(ws, raw)
       THEN /\ Len(out') = 1
            /\ out'[1].to = ws
            /\ out'[1].msg.type = "error"
            /\ CreateInParty(ws, raw) \/ JoinInParty(ws, raw)
                  => out'[1].msg = ErrAlready
            /\ JoinNoParty(ws, raw) /\ NamesCode(raw)
                  => out'[1].msg = ErrNotFound(JoinTarget(raw))
            /\ JoinFullParty(ws, raw) => out'[1].msg = ErrFull
       ELSE \A i \in 1..Len(out') : out'[i].msg.type # "error"
    /\ Silent(ws, raw) => out' = << >>

\* C9: a handler sends an error message exactly when it runs for a create or
\* a join of a connection that has a member, for a join to a code no live
\* party has, or for a join to a party of 8; it is then the one message sent
\* and goes to the sender.  For state, chat and event of a connection
\* without a member, for an unknown kind and for an unparseable payload
\* nothing is sent to anyone.  No other step sends an error message.
C9_Errors ==
    [][/\ \A ws \in AllConns, raw \in AllRaws :
            Step(ws, raw) => ErrorsOf(ws, raw)
       /\ last'.op # "message"
            => \A i \in 1..Len(out') : out'[i].msg.type # "error"]_vars

\* The same for the payloads whose join code is a string or absent.
C9_ErrorsTypedCode ==
    [][/\ \A ws \in AllConns, raw \in AllRaws :
            (Step(ws, raw) /\ (IsJoin(raw) => NamesCode(raw)))
            => ErrorsOf(ws, raw)
       /\ last'.op # "message"
            => \A i \in 1..Len(out') : out'[i].msg.type # "error"]_vars

\* A ninth connection was refused by a party of 8.
C9_FullReply ==
    /\ last.op = "message"
    /\ last.raw = R_joinA
    /\ last.who = Null
    /\ out = << Reply(last.ws, ErrFull) >>
    /\ \E c \in DOMAIN parties : Size(c) = MaxMembers

\* ----------------------------------------------------------------------
\* C10
\* ----------------------------------------------------------------------
\* C10: no run of the message handler, whatever the payload and the types of
\* its fields, ends in an exception that leaves the handler.
C10_NeverThrows ==
    [][\A ws \in AllConns, raw \in AllRaws :
         Step(ws, raw) => ~crashed']_vars

\* An exception leaves the handler only for the payload null, for a join of
\* a connection without a member whose code is neither a string nor falsy,
\* and for a create or join that got its id and whose name cannot be sliced.
C10_ReturnsOrThrows ==
    [][\A ws \in AllConns, raw \in AllRaws :
         (Step(ws, raw) /\ crashed')
         => \/ ~JSONparse(raw).threw /\ JSONparse(raw).value = Null
            \/ /\ IsJoin(raw) /\ ~NamesCode(raw) /\ ws \notin DOMAIN clients
            \/ /\ IsJoin(raw) \/ IsCreate(raw)
               /\ ws \notin DOMAIN clients
               /\ ~HasSlice(OrElse(Get(MsgOf(raw), "name"), NameGen))]_vars

\* ----------------------------------------------------------------------
\* C11
\* ----------------------------------------------------------------------
\* A create or join of connection ws that went through: ws got a member.
Allocated(ws) ==
    /\ last'.op = "message"
    /\ last'.ws = ws
    /\ ws \notin DOMAIN clients
    /\ ws \in DOMAIN clients'

\* The number a member id is the decimal rendering of.
IdValue(p) == DigitsValue(p.id.v)

\* C11: the id a create or join gives its member is the decimal string of the
\* counter, which is then greater and never decreases, so that the id is
\* greater than every id given before and is given once; the ids of all
\* members alive are below the counter and differ from each other, also after
\* earlier holders closed and their parties were dissolved.
C11_IdsIncrease ==
    /\ [][nextId' >= nextId]_vars
    /\ [][\A ws \in Conns :
            Allocated(ws)
            => /\ players'[clients'[ws]].id.t = "string"
               /\ IsDigits(players'[clients'[ws]].id.v)
               /\ IdValue(players'[clients'[ws]]) = nextId
               /\ nextId' > nextId
               /\ \A r \in DOMAIN players :
                     IdValue(players[r]) < IdValue(players'[clients'[ws]])]_vars
    /\ [](\A r \in DOMAIN players : IdValue(players[r]) < nextId)
    /\ [](\A r1, r2 \in DOMAIN players :
            players[r1].id = players[r2].id => r1 = r2)

\* The first member closed and its party was dissolved; the second connection
\* then created a party and is member 2.
C11_SecondAfterDissolved ==
    /\ ~crashed
    /\ Len(readyState) = 2
    /\ readyState[1] = CLOSED
    /\ 1 \notin DOMAIN clients
    /\ 2 \in DOMAIN clients
    /\ InfoOf(2).id = Str(DecStr(2))
    /\ nextId = 3
    /\ Cardinality(DOMAIN parties) = 1

\* ----------------------------------------------------------------------
\* C12
\* ----------------------------------------------------------------------
\* The handler runs for a state message of a connection that has a member.
StateStep(ws, raw) ==
    /\ Step(ws, raw)
    /\ Parsed(raw)
    /\ TypeOf(raw) = T_state
    /\ ws \in DOMAIN clients

\* A number, or a string that is the text of a number.
IsNumeric(v) ==
    \/ v.t = "number"
    \/ v.t = "string" /\ Trim(v.v) # << >> /\ StrToNumber(v.v).t = "number"
NumericValue(v) == IF v.t = "number" THEN v.v ELSE StrToNumber(v.v).v

\* What is stored is what is broadcast, and both are there.
StoredIsBroadcast(ws) ==
    LET me == players'[clients[ws]]
    IN  /\ me.lastState # Null
        /\ \A i \in 1..Len(out') :
              out'[i].msg = StateMsg(me.id, me.lastState)

Coerced(v) ==
    CASE v.t = "number" -> v.v
      [] v.t = "boolean" -> IF v.v THEN 1 ELSE 0
      [] v.t = "string" /\ IsNumeric(v) -> NumericValue(v)
      [] v.t = "array" /\ Len(v.v) = 1 /\ v.v[1].t \in {"number", "string"}
            /\ IsNumeric(v.v[1]) -> NumericValue(v.v[1])
      [] OTHER -> 0

StatesAbout ==
    {players[r].lastState : r \in {q \in DOMAIN players :
                                      players[q].lastState # Null}}
    \cup {out[i].msg : i \in {j \in 1..Len(out) : out[j].msg.type = "state"}}

\* C13: every state held as a member's lastState and every state message
\* broadcast has chap an integer of at least 1 and anim a string.
C13_WellTyped ==
    \A st \in StatesAbout : st.chap \in Nat \ {0} /\ st.anim.t = "string"

\* C13 as amended: every state held as a member's lastState and every state
\* message broadcast has chap a number other than 0 and anim a value that is
\* not falsy; chap is an integer of at least 1 when the chap of the state
\* message is absent, falsy or such an integer, and anim is a string when
\* the anim of the state message is absent, falsy or a string.
C13_NonZeroTruthy ==
    /\ [](\A st \in StatesAbout :
            st.chap \in Int \ {0} /\ Truthy(st.anim))
    /\ [][\A ws \in {last'.ws}, raw \in {last'.raw} :
            StateStep(ws, raw)
            => LET st == players'[clients[ws]].lastState
                   chap == Get(MsgOf(raw), "chap")
                   anim == Get(MsgOf(raw), "anim")
               IN  /\ (~Truthy(chap) \/ (chap.t = "number" /\ chap.v >= 1))
                         => st.chap >= 1
                   /\ (~Truthy(anim) \/ anim.t = "string")
                         => st.anim.t = "string"]_vars

\* A member of a party of two sent chap: -1; -1 was stored and broadcast.
C13_MinusOne ==
    /\ last.op = "message"
    /\ last.raw = StateRaw("chap", Num(0 - 1))
    /\ last.who # Null
    /\ Len(out) = 1
    /\ out[1].msg.chap = 0 - 1
    /\ InfoOf(last.ws).lastState.chap = 0 - 1

\* ----------------------------------------------------------------------
\* C14
\* ----------------------------------------------------------------------
\* The place of a color in the palette, counted from 0.
PaletteIndex(color) == (CHOOSE i \in 1..Len(COLORS) : COLORS[i] = color) - 1

\* C14: the palette has 8 entries; the color of a new member is the entry at
\* (counter - 1) mod 8, the counter read after the id was taken from it; a
\* member made right after another, in whatever party, has the entry that
\* follows cyclically; every member's color is the entry at its id mod 8, so
\* that members whose ids differ by a multiple of 8 have the same color, in
\* one party too.
C14_RoundRobin ==
    /\ [](Len(COLORS) = 8)
    /\ [][\A ws \in {last'.ws} :
            Allocated(ws)
            => LET me == players'[clients'[ws]]
               IN  /\ nextId' = nextId + 1
                   /\ me.color \in {COLORS[i] : i \in 1..8}
                   /\ PaletteIndex(me.color) = (nextId' - 1) % 8
                   /\ \A r \in DOMAIN players :
                         IdValue(players[r]) = IdValue(me) - 1
                         => PaletteIndex(me.color)
                               = (PaletteIndex(players[r].color) + 1) % 8]_vars
    /\ [](\A r \in DOMAIN players :
            PaletteIndex(players[r].color) = IdValue(players[r]) % 8)
    /\ [](\A r1, r2 \in DOMAIN players :
            (IdValue(players[r1]) - IdValue(players[r2])) % 8 = 0
            => players[r1].color = players[r2].color)

\* Members 1 and 9 are in one party, after a member between them left, and
\* have the same color.
C14_SameColorInParty ==
    \E r1, r2 \in DOMAIN players :
        /\ IdValue(players[r1]) = 1
        /\ IdValue(players[r2]) = 9
        /\ players[r1].partyCode = players[r2].partyCode
        /\ {r1, r2} \subseteq
              MemberHandles(parties, players, players[r1].partyCode)
        /\ players[r1].color = players[r2].color
        /\ last.ws = r2

\* ----------------------------------------------------------------------
\* C15
\* ----------------------------------------------------------------------
\* The handler answered the create or join raw of ws with an error message.
Refused(ws, raw) ==
    /\ IsCreate(raw) \/ IsJoin(raw)
    /\ \E i \in 1..Len(out') : out'[i].msg.type = "error"

\* C15: a create or join answered with an error, a state, chat or event of a
\* connection without a member, a message of unknown kind and an unparseable
\* payload leave the parties, their member sets, the directory, every
\* member's lastState and the id counter as they were.
C15_NoEffect ==
    [][\A ws \in {last'.ws}, raw \in {last'.raw} :
         (Step(ws, raw) /\ (Refused(ws, raw) \/ Silent(ws, raw)))
         => /\ UNCHANGED << parties, clients, players, nextId, readyState >>
            /\ ~crashed']_vars

\* A ninth connection was refused by the full party; the counter still holds
\* the id after the eighth member's.
C15_RefusedNoId ==
    /\ last.op = "message"
    /\ last.who = Null
    /\ out = << Reply(last.ws, ErrFull) >>
    /\ last.ws \notin DOMAIN clients
    /\ nextId = MaxMembers + 1
    /\ Cardinality(DOMAIN players) = MaxMembers

\* ----------------------------------------------------------------------
\* C16
\* ----------------------------------------------------------------------
\* The fields of a member that make its identity.
Identity(p) ==
    [id |-> p.id, name |-> p.name, color |-> p.color,
     partyCode |-> p.partyCode, ws |-> p.ws]

\* C16: a state message of a member changes its own lastState and nothing
\* else; a chat and an event message change nothing; the parties and the
\* directory change only in a create, a join or a close; and the id, name,
\* color and partyCode of a member stay as they are for as long as the
\* member is there.
C16_OnlyLastState ==
    /\ [][\A ws \in {last'.ws}, raw \in {last'.raw} :
            StateStep(ws, raw)
            => /\ UNCHANGED << parties, clients, nextId, readyState, crashed >>
               /\ DOMAIN players' = DOMAIN players
               /\ \A r \in DOMAIN players :
                     IF r = clients[ws]
                     THEN Identity(players'[r]) = Identity(players[r])
                     ELSE players'[r] = players[r]]_vars
    /\ [][\A ws \in {last'.ws}, raw \in {last'.raw} :
            (/\ Step(ws, raw)
             /\ Parsed(raw)
             /\ TypeOf(raw) \in {T_chat, T_event})
            => UNCHANGED << parties, clients, players, nextId, readyState,
                            crashed >>]_vars
    /\ [][(parties' # parties \/ clients' # clients)
            => \/ last'.op = "close"
               \/ /\ last'.op = "message"
                  /\ IsCreate(last'.raw) \/ IsJoin(last'.raw)]_vars
    /\ [][\A r \in DOMAIN players \cap DOMAIN players' :
            Identity(players'[r]) = Identity(players[r])]_vars

\* One member of a party of two sent a state message: it has a stored state,
\* the other member has none.
C16_OneStateStored ==
    /\ last.op = "message"
    /\ last.raw = R_state
    /\ last.who # Null
    /\ InfoOf(last.ws).lastState = Normalize(MsgOf(R_state))
    /\ \E r \in DOMAIN players :
          /\ r # last.ws
          /\ players[r].partyCode = last.who.partyCode
          /\ players[r].lastState = Null

\* ----------------------------------------------------------------------
\* C17
\* ----------------------------------------------------------------------
\* The ids of the members of a party.
MemberIds(party) == {party.members[i].k : i \in 1..Len(party.members)}

\* C17: the close handler run for a connection with a member takes the member
\* out of its party and out of the directory, sends left{id} with its id once
\* to every member that remains in the party and nothing to the leaver or to
\* anyone else, keeps the party with its other members unless the leaver was
\* its last, and leaves all other parties and members as they were.
C17_Leave ==
    [][\A ws \in {last'.ws} :
         (Closes(ws) /\ ws \in DOMAIN clients)
         => LET info == InfoOf(ws)
                c == info.partyCode
                rest == MemberHandles(parties, players, c) \ {ws}
            IN  /\ ws \in MemberHandles(parties, players, c)
                /\ ws \notin DOMAIN clients'
                /\ DOMAIN clients' = DOMAIN clients \ {ws}
                /\ \A w \in DOMAIN clients' : clients'[w] = clients[w]
                /\ IF rest = {}
                   THEN c \notin DOMAIN parties'
                   ELSE /\ c \in DOMAIN parties'
                        /\ MemberHandles(parties', players', c) = rest
                        /\ MemberIds(parties'[c])
                              = MemberIds(parties[c]) \ {info.id}
                /\ Recipients(out') = rest
                /\ Len(out') = Cardinality(rest)
                /\ \A i \in 1..Len(out') :
                      out'[i].msg = [type |-> "left", id |-> info.id]
                /\ DOMAIN parties' \ {c} = DOMAIN parties \ {c}
                /\ \A d \in DOMAIN parties \ {c} : parties'[d] = parties[d]
                /\ \A r \in DOMAIN players \ {clients[ws]} :
                      r \in DOMAIN players' /\ players'[r] = players[r]
                /\ UNCHANGED << nextId, crashed >>]_vars

\* A member of a party of two closed while another party was live: the one
\* that remains was sent left, both parties are in the registry.
C17_LeftToOne ==
    /\ last.op = "close"
    /\ last.who # Null
    /\ Len(out) = 1
    /\ out[1].msg = [type |-> "left", id |-> last.who.id]
    /\ out[1].to # last.ws
    /\ last.who.partyCode \in DOMAIN parties
    /\ Cardinality(DOMAIN parties) = 2

\* ----------------------------------------------------------------------
\* C18
\* ----------------------------------------------------------------------
\* The sends of the last handler that are addressed to connection w.
SendsTo(sends, w) == {i \in 1..Len(sends) : sends[i].to = w}

\* The handler runs for a chat message of a connection that has a member.
ChatStep(ws, raw) ==
    /\ Step(ws, raw)
    /\ Parsed(raw)
    /\ TypeOf(raw) = T_chat
    /\ ws \in DOMAIN clients

\* C18: the handler run for a chat message of a member sends the chat exactly
\* once to each member of the party, the sender included, and to no member
\* twice.
C18_OncePerMember ==
    [][\A ws \in {last'.ws}, raw \in {last'.raw} :
         ChatStep(ws, raw)
         => \A w \in MemberHandles(parties, players, InfoOf(ws).partyCode) :
               Cardinality(SendsTo(out', w)) = 1]_vars

\* What the handler does: every other member is sent the chat once, and the
\* sender twice, by the broadcast and by the echo.
C18_SenderTwice ==
    [][\A ws \in {last'.ws}, raw \in {last'.raw} :
         ChatStep(ws, raw)
         => \A w \in MemberHandles(parties, players, InfoOf(ws).partyCode) :
               Cardinality(SendsTo(out', w)) = IF w = ws THEN 2 ELSE 1]_vars

\* ----------------------------------------------------------------------
\* C19
\* ----------------------------------------------------------------------
\* The kinds of message that are about a member.
AboutMember == {"joined", "left", "state", "chat", "event"}

\* The party of the member the messages of the last handler are about: the
\* member of the connection the handler ran for, as it is now or, for a
\* close, as it was when the handler started.
SubjectParty ==
    IF last.ws \in DOMAIN clients THEN InfoOf(last.ws).partyCode
    ELSE last.who.partyCode
SubjectId ==
    IF last.ws \in DOMAIN clients THEN InfoOf(last.ws).id ELSE last.who.id

\* C19: every joined, left, state, chat and event message a handler sends
\* carries the id of the member the handler ran for and goes to a connection
\* that is, when it is sent, a member of the party of that member; a
\* connection of another party or of no party is sent none.
C19_Isolated ==
    \A i \in 1..Len(out) :
        out[i].msg.type \in AboutMember
        => /\ out[i].msg.id = SubjectId
           /\ out[i].to \in DOMAIN clients
           /\ InfoOf(out[i].to).partyCode = SubjectParty
           /\ SubjectParty \in DOMAIN parties
           /\ out[i].to \in MemberHandles(parties, players, SubjectParty)

\* Two parties are live; a member of the party of two sent an event, which
\* went to the other member and not to the member of the other party.
C19_TwoParties ==
    /\ last.op = "message"
    /\ last.raw = R_event
    /\ Cardinality(DOMAIN parties) = 2
    /\ Len(out) = 1
    /\ out[1].msg.type = "event"
    /\ \E w \in DOMAIN clients :
          /\ w \notin Recipients(out) \cup {last.ws}
          /\ InfoOf(w).partyCode # SubjectParty

\* ----------------------------------------------------------------------
\* C20
\* ----------------------------------------------------------------------
\* The member ids a message carries.
IdsCarried(m) ==
    CASE m.type = "welcome" ->
            {m.players[i].id : i \in 1..Len(m.players)}
      [] m.type \in AboutMember -> {m.id}
      [] OTHER -> {}

\* The id of the member of connection w, if it has one.
OwnId(w) == IF w \in DOMAIN clients THEN {InfoOf(w).id} ELSE {}

\* C20: a state, chat, event or left message about another member that a
\* connection is sent carries an id the connection was introduced to before,
\* by the players of its welcome or by a joined message; and a connection
\* that was sent left{X} is sent no message that carries X afterwards.
C20_IntroducedFirst ==
    [][\A i \in 1..Len(out') :
         LET w == out'[i].to
             m == out'[i].msg
             known == SeenBy(seen, w)
         IN  /\ (m.type \in {"state", "chat", "event", "left"}
                   /\ m.id \notin OwnId(w))
                => m.id \in known.intro
             /\ IdsCarried(m) \cap known.gone = {}]_vars

\* A connection that was told a member left is now sent the state of another
\* member it had been introduced to.
C20_StateAfterLeft ==
    /\ last.op = "message"
    /\ last.raw = R_state
    /\ Len(out) = 1
    /\ out[1].msg.type = "state"
    /\ out[1].to \in DOMAIN seen
    /\ seen[out[1].to].gone # {}
    /\ out[1].msg.id \in seen[out[1].to].intro
    /\ out[1].msg.id \notin seen[out[1].to].gone

=============================================================================
